---- MODULE Spec2Model ----
(***************************************************************************)
(* Model of the schedule-management request layer of movie-club-queue-cdk: *)
(* the add-movie handler (api/add-movie/index.ts), the get-schedule        *)
(* handler (api/get-schedule/index.ts), the TMDb client (shared/tmdb.ts)   *)
(* and the Secrets Manager cache (shared/secrets-manager.ts).              *)
(*                                                                         *)
(* One Node.js process is modelled.  Its module-scope state is             *)
(* cachedTmdbApiKey; the durable state is the DynamoDB movies table.  A    *)
(* handler invocation occupies a slot and advances from one await to the   *)
(* next: everything the JavaScript runs between two awaits is one action.  *)
(* Secrets Manager, TMDb and DynamoDB are external, so the answer they     *)
(* give to a call is chosen nondeterministically when the await resumes.   *)
(***************************************************************************)
EXTENDS Integers, Sequences, FiniteSets, TLC

VARIABLES
    table,              \* the DynamoDB movies table: a set of MovieItem
    index,              \* the items discussion-date-index has received so far
    tmdbTitle,          \* the title TMDb serves at present
    cachedTmdbApiKey,   \* module-scope cache of secrets-manager.ts
    inv,                \* inv[i]: the handler invocation running in slot i
    secretCalls,        \* GetSecretValue commands sent so far
    added,              \* added[id]: the 201 responses given for tmdb_id id
    now                 \* the clock of the process, in ticks

vars ==
    <<table, index, tmdbTitle, cachedTmdbApiKey, inv, secretCalls, added, now>>

----------------------------------------------------------------------------
(* Bounds of the model *)

\* invocation slots: how many handler invocations may be in flight at once
NumSlots == 2

\* cap on the number of GetSecretValue commands of one behaviour
MaxSecretCalls == 2

\* the last tick of the clock
MaxTime == 2

Slots == 1..NumSlots

----------------------------------------------------------------------------
(* JavaScript values of the request fields *)

\* validateRequest: body.notes.length > 1000
NotesMaxLength == 1000

Digits == {"0", "1", "2", "3", "4", "5", "6", "7", "8", "9"}

DigitValue(c) ==
    CASE c = "0" -> 0 [] c = "1" -> 1 [] c = "2" -> 2 [] c = "3" -> 3
      [] c = "4" -> 4 [] c = "5" -> 5 [] c = "6" -> 6 [] c = "7" -> 7
      [] c = "8" -> 8 [] c = "9" -> 9

\* tmdb_id: a JSON value; a number is n, or n + 0.5 when frac
IdValue(t, n, frac) == [t |-> t, n |-> n, frac |-> frac]
IdNumber(n) == IdValue("number", n, FALSE)
IdUndefined == IdValue("undefined", 0, FALSE)

\* discussion_date: a JSON value; a string is its sequence of characters
DateValue(t, chars) == [t |-> t, chars |-> chars]
DateString(chars) == DateValue("string", chars)
DateUndefined == DateValue("undefined", <<>>)

\* status: a JSON value; s is the string, or the literal of another value
StatusValue(t, s) == [t |-> t, s |-> s]
StatusString(s) == StatusValue("string", s)
StatusUndefined == StatusValue("undefined", "")

\* notes: a JSON value; a string is represented by its length
NotesValue(t, length) == [t |-> t, length |-> length]
NotesString(length) == NotesValue("string", length)
NotesUndefined == NotesValue("undefined", 0)

\* JavaScript truthiness (ToBoolean) of each field value
IdTruthy(v) ==
    CASE v.t = "number" -> ~(v.n = 0 /\ ~v.frac)
      [] v.t = "string" -> TRUE          \* the id strings used are non-empty
      [] OTHER -> FALSE                  \* undefined, null

DateTruthy(v) ==
    CASE v.t = "string" -> Len(v.chars) > 0
      [] v.t = "number" -> TRUE          \* the date numbers used are non-zero
      [] OTHER -> FALSE

StatusTruthy(v) ==
    CASE v.t = "string" -> v.s # ""
      [] v.t = "number" -> v.s # "0"
      [] v.t = "boolean" -> v.s = "true"
      [] OTHER -> FALSE

NotesTruthy(v) ==
    CASE v.t = "string" -> v.length > 0
      [] v.t = "number" -> TRUE          \* the notes numbers used are non-zero
      [] OTHER -> FALSE

----------------------------------------------------------------------------
(* validateRequest *)

\* !body.tmdb_id || typeof body.tmdb_id !== "number"
TmdbIdMissing(id) == ~IdTruthy(id) \/ id.t # "number"

\* body.tmdb_id <= 0
TmdbIdNotPositive(id) == id.n < 0 \/ (id.n = 0 /\ ~id.frac)

\* !body.discussion_date || typeof body.discussion_date !== "string"
DateMissing(date) == ~DateTruthy(date) \/ date.t # "string"

\* /^\d{4}-\d{2}-\d{2}$/.test(chars)
dateRegex(chars) ==
    /\ Len(chars) = 10
    /\ \A k \in {1, 2, 3, 4, 6, 7, 9, 10} : chars[k] \in Digits
    /\ chars[5] = "-"
    /\ chars[8] = "-"

YearOf(chars) ==
    1000 * DigitValue(chars[1]) + 100 * DigitValue(chars[2])
        + 10 * DigitValue(chars[3]) + DigitValue(chars[4])
MonthOf(chars) == 10 * DigitValue(chars[6]) + DigitValue(chars[7])
DayOf(chars) == 10 * DigitValue(chars[9]) + DigitValue(chars[10])

\* isNaN(new Date(chars).getTime()) for a string that passed dateRegex, on the
\* Node.js 20 runtime of the function: V8's ISO parser rejects a month outside
\* 1..12 and a day outside 1..31, and lets a day past the end of its month
\* roll over into the next month.
DateIsNaN(chars) ==
    ~(MonthOf(chars) \in 1..12 /\ DayOf(chars) \in 1..31)

\* body.status && !["scheduled", "watched"].includes(body.status)
StatusInvalid(status) ==
    /\ StatusTruthy(status)
    /\ status \notin {StatusString("scheduled"), StatusString("watched")}

NotesTooLong_AtLimit(notes) ==
    NotesTruthy(notes) /\ notes.t = "string" /\ notes.length >= NotesMaxLength

\* body.notes && body.notes.length > 1000 (a number has no length)
NotesTooLong(notes) ==
    NotesTruthy(notes) /\ notes.t = "string" /\ notes.length > NotesMaxLength

\* The ValidationError message validateRequest throws, "" when it returns.
validateRequest(body) ==
    IF TmdbIdMissing(body.tmdb_id)
    THEN "tmdb_id is required and must be a number"
    ELSE IF TmdbIdNotPositive(body.tmdb_id)
    THEN "tmdb_id must be a positive number"
    ELSE IF DateMissing(body.discussion_date)
    THEN "discussion_date is required and must be a string"
    ELSE IF ~dateRegex(body.discussion_date.chars)
    THEN "discussion_date must be in YYYY-MM-DD format"
    ELSE IF DateIsNaN(body.discussion_date.chars)
    THEN "discussion_date is not a valid date"
    ELSE IF StatusInvalid(body.status)
    THEN "status must be either 'scheduled' or 'watched'"
    ELSE IF NotesTooLong(body.notes)
    THEN "notes must be less than 1000 characters"
    ELSE ""

----------------------------------------------------------------------------
(* Schedule entries and the DynamoDB table *)

\* claims?.email when the request carries no identity claim
NoEmail == ""

\* created_at and updated_at: the instant an ISO 8601 timestamp names
MovieItem(tmdb_id, status, discussion_date, title, notes, added_by, created_at, updated_at) ==
    [tmdb_id |-> tmdb_id, status |-> status,
     discussion_date |-> discussion_date, title |-> title,
     notes |-> notes, added_by |-> added_by,
     created_at |-> created_at, updated_at |-> updated_at]

NoItem ==
    MovieItem(IdUndefined, "", <<>>, "", NotesUndefined, NoEmail, 0, 0)

\* request.status || "scheduled"
StatusOrDefault(status) ==
    IF StatusTruthy(status) THEN status.s ELSE "scheduled"

\* const now = new Date().toISOString() reads the clock once
createMovieItem(request, tmdbMovie, addedBy) ==
    MovieItem(request.tmdb_id, StatusOrDefault(request.status),
              request.discussion_date.chars, tmdbMovie.title,
              request.notes, addedBy, now, now)

\* the items of the table stored under the partition key of item
SameKey(tbl, item) == {m \in tbl : m.tmdb_id = item.tmdb_id}

\* a conditional put that fails on a stored key but leaves the notes of the
\* new item on the stored one
PutItemIfNotExists_MergeOnConflict(tbl, item) ==
    IF SameKey(tbl, item) # {}
    THEN [error |-> "ConditionalCheckFailedException",
          table |-> (tbl \ SameKey(tbl, item))
                      \cup {[m EXCEPT !.notes = item.notes] :
                               m \in SameKey(tbl, item)}]
    ELSE [error |-> "", table |-> (tbl \ SameKey(tbl, item)) \cup {item}]

\* a put that is refused whenever the table holds any item
PutItemIfNotExists_AnyItemConflicts(tbl, item) ==
    IF tbl # {}
    THEN [error |-> "ConditionalCheckFailedException", table |-> tbl]
    ELSE [error |-> "", table |-> (tbl \ SameKey(tbl, item)) \cup {item}]

\* PutItem without the ConditionExpression: the item replaces the stored one
PutItemIfNotExists_Unconditional(tbl, item) ==
    [error |-> "", table |-> (tbl \ SameKey(tbl, item)) \cup {item}]

\* DynamoDB PutItem with ConditionExpression attribute_not_exists(tmdb_id):
\* one atomic step of the table.  It fails when an item is stored under the
\* key and otherwise stores the item as the only one under that key.
PutItemIfNotExists(tbl, item) ==
    IF SameKey(tbl, item) # {}
    THEN [error |-> "ConditionalCheckFailedException", table |-> tbl]
    ELSE [error |-> "", table |-> (tbl \ SameKey(tbl, item)) \cup {item}]

\* a catch block that does not tell the failed condition from other errors
saveMovieToDynamoDB_ConflictAsError(tbl, movieItem, fault) ==
    IF fault \/ PutItemIfNotExists(tbl, movieItem).error # ""
    THEN [error |-> "Error", table |-> tbl]
    ELSE [error |-> "", table |-> PutItemIfNotExists(tbl, movieItem).table]

\* an unconditional put followed by the report of the conflict it overwrote
saveMovieToDynamoDB_OverwriteOnConflict(tbl, movieItem, fault) ==
    IF fault
    THEN [error |-> "Error", table |-> tbl]
    ELSE [error |-> IF SameKey(tbl, movieItem) # {}
                    THEN "MovieAlreadyExistsError" ELSE "",
          table |-> (tbl \ SameKey(tbl, movieItem)) \cup {movieItem}]

\* saveMovieToDynamoDB: what dynamoClient.send(PutItemCommand) does and which
\* error the function throws; fault is a DynamoDB failure other than the
\* failed condition (throttling, access denied, service error).  A command
\* that rejects has not been applied: the table is as it was.
saveMovieToDynamoDB(tbl, movieItem, fault) ==
    IF fault
    THEN [error |-> "Error", table |-> tbl]
    ELSE LET put == PutItemIfNotExists(tbl, movieItem)
         IN  IF put.error = "ConditionalCheckFailedException"
             THEN [error |-> "MovieAlreadyExistsError", table |-> put.table]
             ELSE [error |-> "", table |-> put.table]

----------------------------------------------------------------------------
(* shared/secrets-manager.ts *)

\* cachedTmdbApiKey = null.  The cache holds null or a non-empty string, so
\* null is written as the one string it never holds; the text "null" is a
\* key like any other.
NullKey == ""

\* What GetSecretValue answers.  kind "throws": the command rejects;
\* "undefined": no SecretString (or an empty one); "text": a SecretString
\* that is not JSON, value is the text; "object": a JSON object, value is its
\* TMDB_API_KEY member ("" when the member is missing or empty);
\* "primitive": JSON text of a number, string or boolean, value is the text;
\* "jsonNull": the JSON text null.
SecretResponse(kind, value) == [kind |-> kind, value |-> value]

ApiKeys == {"tmdb-key"}

SecretResponses ==
    {SecretResponse("throws", ""), SecretResponse("undefined", ""),
     SecretResponse("object", ""), SecretResponse("primitive", "12345"),
     SecretResponse("jsonNull", "null")}
    \cup {SecretResponse("text", k) : k \in ApiKeys}
    \cup {SecretResponse("object", k) : k \in ApiKeys}

\* how a failed getTmdbApiKey is recorded in the history of an invocation:
\* apart the failures on a SecretString that is a non-empty bare value
SecretFault(response) ==
    IF response.kind = "primitive" THEN "secrets:bare" ELSE "secrets"

\* the message of the Error getTmdbApiKey throws from its catch block
SecretFailedMessage == "Failed to retrieve TMDb API key from Secrets Manager"

\* getTmdbApiKey after secretsClient.send: the key it caches and returns,
\* or "" when it throws "Failed to retrieve TMDb API key from Secrets Manager"
getTmdbApiKey(response) ==
    CASE response.kind = "throws" -> ""
      [] response.kind = "undefined" -> ""       \* "Secret value is empty"
      [] response.kind = "text" -> response.value      \* JSON.parse throws
      [] response.kind = "object" -> response.value    \* secret.TMDB_API_KEY
      [] response.kind = "primitive" -> ""       \* (12345).TMDB_API_KEY
      [] response.kind = "jsonNull" -> response.value  \* TypeError is caught

----------------------------------------------------------------------------
(* shared/tmdb.ts *)

\* What the TMDb API answers to GET /movie/{id}, with the title member of
\* its JSON body.
TmdbResponse(kind, title) == [kind |-> kind, title |-> title]

Titles == {"The Matrix", "Matrix"}

\* the title of a JSON body that has no title member: undefined
NoTitle == ""

\* What fetch and response.json() can come to.  kind "ok": a 2xx status
\* and a body that is JSON, the movie or any other JSON value; "404" and
\* "5xx": the status; "network": fetch rejects; "badjson": a 2xx status and
\* a body that is not JSON.
TmdbResponses ==
    {TmdbResponse("ok", tmdbTitle), TmdbResponse("ok", NoTitle)}
    \cup {TmdbResponse(k, "") : k \in {"404", "5xx", "network", "badjson"}}

\* how a failed lookup is recorded in the history of an invocation
TmdbFault(response) == IF response.kind = "404" THEN "tmdb:404" ELSE "tmdb"

\* fetchMovieFromTmdb without the response.status === 404 branch
fetchMovieFromTmdb_No404Branch(response) ==
    CASE response.kind = "ok" -> [error |-> "", title |-> response.title]
      [] OTHER -> [error |-> "Error", title |-> ""]

\* fetchMovieFromTmdb: the record it returns or the error it throws
fetchMovieFromTmdb(response) ==
    CASE response.kind = "ok" -> [error |-> "", title |-> response.title]
      [] response.kind = "404" -> [error |-> "MovieNotFoundError", title |-> ""]
      [] OTHER -> [error |-> "Error", title |-> ""]

----------------------------------------------------------------------------
(* API Gateway events and handler results *)

\* event.body of POST /movies.  kind "absent": null or empty, the handler
\* parses "{}"; "malformed": text JSON.parse rejects; "null": the JSON text
\* null; "primitive": JSON text of a number, string, boolean or array (its
\* properties are undefined); "object": a JSON object with these members.
Body(kind, tmdb_id, discussion_date, status, notes) ==
    [kind |-> kind, tmdb_id |-> tmdb_id, discussion_date |-> discussion_date,
     status |-> status, notes |-> notes]

BodyWithoutMembers(kind) ==
    Body(kind, IdUndefined, DateUndefined, StatusUndefined, NotesUndefined)

\* the event of an invocation: the body and the email claim of the
\* authorizer; authorizer tells whether the request carried a token the
\* Cognito authorizer verified (requestContext.authorizer is set)
Event(body, email) == [body |-> body, email |-> email, authorizer |-> TRUE]

\* a request without a verified token
AnonymousEvent(body) ==
    [body |-> body, email |-> NoEmail, authorizer |-> FALSE]

NoEvent == AnonymousEvent(BodyWithoutMembers("absent"))


\* an APIGatewayProxyResult: statusCode and the members of its JSON body
Response(statusCode, error, message, movie, movies) ==
    [statusCode |-> statusCode, error |-> error, message |-> message,
     movie |-> movie, movies |-> movies]

NoResponse == Response(0, "", "", NoItem, <<>>)

ErrorResponse(statusCode, error, message) ==
    Response(statusCode, error, message, NoItem, <<>>)

\* what API Gateway answers by itself to a request its authorizer rejects
Unauthorized == ErrorResponse(401, "", "Unauthorized")

\* a catch block whose last branch reports the error as the client's
AddMovieErrorResponse_DefaultIs400(error, message) ==
    CASE error = "MovieAlreadyExistsError" ->
             ErrorResponse(409, "Conflict", message)
      [] error = "MovieNotFoundError" ->
             ErrorResponse(404, "Not found", message)
      [] OTHER -> ErrorResponse(400, "Validation error", message)

\* the catch block of the add-movie handler
AddMovieErrorResponse(error, message) ==
    CASE error = "ValidationError" ->
             ErrorResponse(400, "Validation error", message)
      [] error = "MovieAlreadyExistsError" ->
             ErrorResponse(409, "Conflict", message)
      [] error = "MovieNotFoundError" ->
             ErrorResponse(404, "Not found", message)
      [] OTHER -> ErrorResponse(500, "Internal server error", message)

\* JSON.parse(event.body || "{}") followed by validateRequest(body): the
\* error thrown, as <<class, message>>, or <<"", "">>
ParseAndValidate(body) ==
    IF body.kind = "malformed"
    THEN <<"SyntaxError", "Unexpected token in JSON">>
    ELSE IF body.kind = "null"
    THEN <<"TypeError", "Cannot read properties of null">>
    ELSE LET message == validateRequest(body)
         IN  IF message # "" THEN <<"ValidationError", message>>
             ELSE <<"", "">>

----------------------------------------------------------------------------
(* Invocations *)

\* kind: "add" or "get"; pc: the await the invocation is suspended at, or
\* "done" once the handler has returned resp; event: its event; movieItem:
\* the item add-movie is writing; movies: what the query of get-schedule
\* returned; enriched: the element each settled enrichment produced;
\* pending: the positions still awaited.
\* Five fields record its history: calls, the calls made to Secrets
\* Manager, TMDb and DynamoDB in order; faults, the calls that failed;
\* writes, the number of items it has stored in the table; free, whether
\* the table held no item of its tmdb_id when its PutItemCommand was sent;
\* settled, the positions of movies in the order their fetches settled,
\* each with whether TMDb answered it with a JSON body and the title of
\* that body.
\* tmdbApiKey: what getTmdbApiKey returned to the handler.
Invocation(kind, event) ==
    [kind |-> kind, pc |-> "idle", event |-> event, movieItem |-> NoItem,
     movies |-> <<>>, enriched |-> <<>>, pending |-> {}, resp |-> NoResponse,
     calls |-> <<>>, faults |-> {}, writes |-> 0, free |-> FALSE,
     settled |-> <<>>, tmdbApiKey |-> NullKey]

Idle == Invocation("none", NoEvent)

\* the call is sent and the invocation waits for it at pc
Call(v, service, pc) == [v EXCEPT !.pc = pc, !.calls = Append(@, service)]

\* the handler returns resp
Finish(v, resp) == [v EXCEPT !.pc = "done", !.resp = resp]

\* the call of service failed with what, and the handler returns resp
Fail(v, what, resp) == Finish([v EXCEPT !.faults = @ \cup {what}], resp)

NoneInFlight == \A j \in Slots : inv[j].pc = "idle"

\* a new invocation takes the free slot of lowest number
FirstFree(i) ==
    /\ inv[i].pc = "idle"
    /\ \A j \in 1..(i - 1) : inv[j].pc # "idle"

\* the numbers a tmdb_id may be
TmdbIds ==
    {IdValue("number", n, frac) : n \in -1..2, frac \in BOOLEAN}

Init ==
    /\ table = {}
    /\ index = {}
    /\ tmdbTitle = "The Matrix"
    /\ cachedTmdbApiKey = NullKey
    /\ inv = [i \in Slots |-> Idle]
    /\ secretCalls = 0
    /\ added = [id \in TmdbIds |-> 0]
    /\ now = 1

----------------------------------------------------------------------------
(* add-movie handler *)

\* getTmdbApiKey that remembers its first attempt, whatever its outcome
CacheHit_OnceAttempted(cache) == cache # NullKey \/ secretCalls > 0

\* getTmdbApiKey without the cache check
CacheHit_Never(cache) == FALSE

\* getTmdbApiKey: if (cachedTmdbApiKey) return cachedTmdbApiKey
CacheHit(cache) == cache # NullKey

\* a handler that enters getTmdbApiKey before it parses and validates
AddMovieStart_FetchBeforeValidate(i, events) ==
    /\ FirstFree(i)
    /\ \E event \in events :
         LET thrown == ParseAndValidate(event.body)
             v == Invocation("add", event)
         IN  IF ~CacheHit(cachedTmdbApiKey)
             THEN /\ secretCalls < MaxSecretCalls
                  /\ inv' = [inv EXCEPT ![i] =
                        Call(v, "secrets", "awaitSecret")]
                  /\ secretCalls' = secretCalls + 1
             ELSE IF thrown[1] # ""
             THEN /\ inv' = [inv EXCEPT ![i] =
                        Finish(v, AddMovieErrorResponse(thrown[1], thrown[2]))]
                  /\ UNCHANGED secretCalls
             ELSE /\ inv' = [inv EXCEPT ![i] =
                        [Call(v, "tmdb", "awaitTmdb") EXCEPT
                            !.tmdbApiKey = cachedTmdbApiKey]]
                  /\ UNCHANGED secretCalls
    /\ UNCHANGED <<table, index, tmdbTitle, cachedTmdbApiKey, added, now>>

\* The handler up to its first pending await: parse, validate, enter
\* getTmdbApiKey.  With the key cached getTmdbApiKey returns it and the
\* handler goes on to call TMDb; otherwise GetSecretValue is sent.
AddMovieStart(i, events) ==
    /\ FirstFree(i)
    /\ \E event \in events :
         LET thrown == ParseAndValidate(event.body)
             v == Invocation("add", event)
         IN  IF thrown[1] # ""
             THEN /\ inv' = [inv EXCEPT ![i] =
                        Finish(v, AddMovieErrorResponse(thrown[1], thrown[2]))]
                  /\ UNCHANGED secretCalls
             ELSE IF CacheHit(cachedTmdbApiKey)
             THEN /\ inv' = [inv EXCEPT ![i] =
                        [Call(v, "tmdb", "awaitTmdb") EXCEPT
                            !.tmdbApiKey = cachedTmdbApiKey]]
                  /\ UNCHANGED secretCalls
             ELSE /\ secretCalls < MaxSecretCalls
                  /\ inv' = [inv EXCEPT ![i] =
                        Call(v, "secrets", "awaitSecret")]
                  /\ secretCalls' = secretCalls + 1
    /\ UNCHANGED <<table, index, tmdbTitle, cachedTmdbApiKey, added, now>>

\* POST /movies without an authorizer: the function is invoked
PostMoviesUnauthorized_NoAuthorizer(i, events) ==
    AddMovieStart(i, {AnonymousEvent(event.body) : event \in events})

\* POST /movies with a missing or invalid token: the Cognito authorizer of
\* the method rejects the request and API Gateway answers 401; the function
\* is not invoked.
PostMoviesUnauthorized(i, events) ==
    /\ FirstFree(i)
    /\ \E event \in events :
         inv' = [inv EXCEPT ![i] =
             Finish(Invocation("unauthorized", AnonymousEvent(event.body)),
                    Unauthorized)]
    /\ UNCHANGED <<table, index, tmdbTitle, cachedTmdbApiKey, secretCalls, added, now>>

\* a getTmdbApiKey that writes the cache before it looks at the value: the
\* SecretString it then refuses stays cached
AddMovieSecretResponse_CachesBeforeCheck(i) ==
    /\ inv[i].kind = "add"
    /\ inv[i].pc = "awaitSecret"
    /\ \E response \in SecretResponses :
         LET apiKey == getTmdbApiKey(response)
         IN  IF apiKey = ""
             THEN /\ inv' = [inv EXCEPT ![i] = Fail(@, SecretFault(response),
                        AddMovieErrorResponse("Error", SecretFailedMessage))]
                  /\ cachedTmdbApiKey' = IF response.value # ""
                                         THEN response.value
                                         ELSE cachedTmdbApiKey
             ELSE /\ cachedTmdbApiKey' = apiKey
                  /\ inv' = [inv EXCEPT ![i] =
                        [Call(@, "tmdb", "awaitTmdb") EXCEPT
                            !.tmdbApiKey = apiKey]]
    /\ UNCHANGED <<table, index, tmdbTitle, secretCalls, added, now>>

\* a getTmdbApiKey whose catch block resets the cache
AddMovieSecretResponse_ClearsOnFailure(i) ==
    /\ inv[i].kind = "add"
    /\ inv[i].pc = "awaitSecret"
    /\ \E response \in SecretResponses :
         LET apiKey == getTmdbApiKey(response)
         IN  IF apiKey = ""
             THEN /\ inv' = [inv EXCEPT ![i] = Fail(@, SecretFault(response),
                        AddMovieErrorResponse("Error", SecretFailedMessage))]
                  /\ cachedTmdbApiKey' = NullKey
             ELSE /\ cachedTmdbApiKey' = apiKey
                  /\ inv' = [inv EXCEPT ![i] =
                        [Call(@, "tmdb", "awaitTmdb") EXCEPT
                            !.tmdbApiKey = apiKey]]
    /\ UNCHANGED <<table, index, tmdbTitle, secretCalls, added, now>>

\* secretsClient.send settles: the rest of getTmdbApiKey, then the handler
\* calls fetchMovieFromTmdb or returns 500.
AddMovieSecretResponse(i) ==
    /\ inv[i].kind = "add"
    /\ inv[i].pc = "awaitSecret"
    /\ \E response \in SecretResponses :
         LET apiKey == getTmdbApiKey(response)
         IN  IF apiKey = ""
             THEN /\ inv' = [inv EXCEPT ![i] = Fail(@, SecretFault(response),
                        AddMovieErrorResponse("Error", SecretFailedMessage))]
                  /\ UNCHANGED cachedTmdbApiKey
             ELSE /\ cachedTmdbApiKey' = apiKey
                  /\ inv' = [inv EXCEPT ![i] =
                        [Call(@, "tmdb", "awaitTmdb") EXCEPT
                            !.tmdbApiKey = apiKey]]
    /\ UNCHANGED <<table, index, tmdbTitle, secretCalls, added, now>>

\* fetch settles: the rest of fetchMovieFromTmdb, then createMovieItem and
\* the PutItemCommand is sent, or the handler returns 404 or 500.
AddMovieTmdbResponse(i) ==
    /\ inv[i].kind = "add"
    /\ inv[i].pc = "awaitTmdb"
    /\ \E response \in TmdbResponses :
         LET tmdbMovie == fetchMovieFromTmdb(response)
         IN  inv' = [inv EXCEPT ![i] =
               CASE tmdbMovie.error = "MovieNotFoundError" ->
                        Fail(@, TmdbFault(response),
                             AddMovieErrorResponse("MovieNotFoundError",
                                 "Movie with TMDb ID not found"))
                 [] tmdbMovie.error = "Error" ->
                        Fail(@, TmdbFault(response),
                             AddMovieErrorResponse("Error",
                                 "Failed to fetch movie from TMDb"))
                 [] OTHER ->
                        LET movieItem == createMovieItem(inv[i].event.body,
                                             tmdbMovie, inv[i].event.email)
                        IN  [Call(@, "dynamodb", "awaitPut") EXCEPT
                                !.movieItem = movieItem,
                                !.free = SameKey(table, movieItem) = {}]]
    /\ UNCHANGED <<table, index, tmdbTitle, cachedTmdbApiKey, secretCalls, added, now>>

\* read-then-write: the item is stored when the key was free at the time the
\* request was sent, whatever the table holds by now
AddMoviePutResponse_ReadThenWrite(i) ==
    /\ inv[i].kind = "add"
    /\ inv[i].pc = "awaitPut"
    /\ LET movieItem == inv[i].movieItem
       IN  IF inv[i].free
           THEN /\ table' = (table \ SameKey(table, movieItem))
                                \cup {movieItem}
                /\ inv' = [inv EXCEPT ![i] =
                      Finish([@ EXCEPT !.writes = @ + 1],
                          Response(201, "",
                              "Movie successfully added to schedule",
                              movieItem, <<>>))]
                /\ added' = [added EXCEPT ![movieItem.tmdb_id] = @ + 1]
           ELSE /\ inv' = [inv EXCEPT ![i] = Finish(@,
                      AddMovieErrorResponse("MovieAlreadyExistsError",
                          "Movie already exists in the schedule"))]
                /\ UNCHANGED <<table, added, now>>
    /\ UNCHANGED <<index, tmdbTitle, cachedTmdbApiKey, secretCalls, now>>

\* DynamoDB executes the PutItemCommand and dynamoClient.send settles: the
\* rest of saveMovieToDynamoDB, then the handler returns 201, 409 or 500.
AddMoviePutResponse(i) ==
    /\ inv[i].kind = "add"
    /\ inv[i].pc = "awaitPut"
    /\ \E fault \in BOOLEAN :
         LET saved == saveMovieToDynamoDB(table, inv[i].movieItem, fault)
             v == [inv[i] EXCEPT
                      !.writes = IF saved.table # table THEN @ + 1 ELSE @,
                      !.faults = IF fault THEN @ \cup {"dynamodb"} ELSE @]
             id == inv[i].movieItem.tmdb_id
         IN  /\ table' = saved.table
             /\ CASE saved.error = "MovieAlreadyExistsError" ->
                       /\ inv' = [inv EXCEPT ![i] = Finish(v,
                             AddMovieErrorResponse("MovieAlreadyExistsError",
                                 "Movie already exists in the schedule"))]
                       /\ UNCHANGED added
                  [] saved.error = "Error" ->
                       /\ inv' = [inv EXCEPT ![i] = Finish(v,
                             AddMovieErrorResponse("Error",
                                 "Failed to save movie to database"))]
                       /\ UNCHANGED added
                  [] OTHER ->
                       /\ inv' = [inv EXCEPT ![i] = Finish(v,
                             Response(201, "",
                                 "Movie successfully added to schedule",
                                 inv[i].movieItem, <<>>))]
                       /\ added' = [added EXCEPT ![id] = @ + 1]
    /\ UNCHANGED <<index, tmdbTitle, cachedTmdbApiKey, secretCalls, now>>

\* The result of a finished invocation has been handed back; the slot is free.
Return(i) ==
    /\ inv[i].pc = "done"
    /\ inv' = [inv EXCEPT ![i] = Idle]
    /\ UNCHANGED <<table, index, tmdbTitle, cachedTmdbApiKey, secretCalls, added, now>>

----------------------------------------------------------------------------
(* get-schedule handler *)

\* the code unit of a character of a stored discussion_date
CharCode(c) == IF c = "-" THEN 45 ELSE 48 + DigitValue(c)

\* a < b for two strings as DynamoDB orders a string sort key
StringLess(a, b) ==
    \/ \E k \in 1..Len(a) :
         /\ k <= Len(b)
         /\ \A j \in 1..(k - 1) : a[j] = b[j]
         /\ CharCode(a[k]) < CharCode(b[k])
    \/ /\ Len(a) < Len(b)
       /\ \A j \in 1..Len(a) : a[j] = b[j]

\* a Query with Limit 1: the first item of the partition alone
QueryScheduled_FirstItemOnly(idx) ==
    LET scheduled == {m \in idx : m.status = "scheduled"}
    IN  IF scheduled = {} THEN {<<>>}
        ELSE {<<m>> : m \in {x \in scheduled :
                 \A y \in scheduled :
                    ~StringLess(y.discussion_date, x.discussion_date)}}

\* a Scan of discussion-date-index: no key condition on status
QueryScheduled_WholeIndex(idx) ==
    LET n == Cardinality(idx)
    IN  {q \in [1..n -> idx] :
            /\ \A j, k \in 1..n : j # k => q[j] # q[k]
            /\ \A j, k \in 1..n :
                 j < k => ~StringLess(q[k].discussion_date, q[j].discussion_date)}

\* Query on discussion-date-index with #status = "scheduled" and
\* ScanIndexForward: the sequences DynamoDB may return, the items of the
\* partition in ascending order of discussion_date (items with equal dates
\* in either order).
QueryScheduled(idx) ==
    LET scheduled == {m \in idx : m.status = "scheduled"}
        n == Cardinality(scheduled)
    IN  {q \in [1..n -> scheduled] :
            /\ \A j, k \in 1..n : j # k => q[j] # q[k]
            /\ \A j, k \in 1..n :
                 j < k => ~StringLess(q[k].discussion_date, q[j].discussion_date)}

\* an element of the movies array of the response
EnrichedMovie(tmdb_id, title, discussion_date, status, notes) ==
    [tmdb_id |-> tmdb_id, title |-> title, discussion_date |-> discussion_date,
     status |-> status, notes |-> notes]

NoEnriched == EnrichedMovie(IdUndefined, "", <<>>, "", NotesUndefined)

\* a callback that keeps the stored TMDb fields and fetches only to see
\* that the movie still exists
enrichMovie_PrefersStored(movie, response) ==
    EnrichedMovie(movie.tmdb_id, movie.title,
                  movie.discussion_date, movie.status, movie.notes)

\* the callback without its catch block's stored data: a failed fetch leaves
\* the TMDb fields of the element empty
enrichMovie_NoFallback(movie, response) ==
    EnrichedMovie(movie.tmdb_id, fetchMovieFromTmdb(response).title,
                  movie.discussion_date, movie.status, movie.notes)

\* the callback of movies.map in enrichMoviesWithTmdb, once fetch has settled
enrichMovie(movie, response) ==
    LET tmdbData == fetchMovieFromTmdb(response)
    IN  IF tmdbData.error = ""
        THEN EnrichedMovie(movie.tmdb_id, tmdbData.title,
                           movie.discussion_date, movie.status, movie.notes)
        ELSE EnrichedMovie(movie.tmdb_id, movie.title,
                           movie.discussion_date, movie.status, movie.notes)

\* count: enrichedMovies.length in the body of the 200 response
CountOf(resp) == Len(resp.movies)

\* a catch block that answers with an empty listing
GetScheduleErrorResponse_EmptyList(message) ==
    Response(200, "", message, NoItem, <<>>)

\* the catch block of the get-schedule handler
GetScheduleErrorResponse(message) ==
    ErrorResponse(500, "Internal server error", message)

\* the handler calls getScheduledMovies: the QueryCommand is sent
SendQuery(v) == Call(v, "dynamodb", "awaitQuery")

\* The handler up to its first pending await: enter getTmdbApiKey; with the
\* key cached the handler goes on to send the query.
GetScheduleStart(i) ==
    /\ FirstFree(i)
    /\ LET v == Invocation("get", NoEvent)
       IN  IF CacheHit(cachedTmdbApiKey)
           THEN /\ inv' = [inv EXCEPT ![i] =
                      [SendQuery(v) EXCEPT !.tmdbApiKey = cachedTmdbApiKey]]
                /\ UNCHANGED secretCalls
           ELSE /\ secretCalls < MaxSecretCalls
                /\ inv' = [inv EXCEPT ![i] =
                      Call(v, "secrets", "awaitSecret")]
                /\ secretCalls' = secretCalls + 1
    /\ UNCHANGED <<table, index, tmdbTitle, cachedTmdbApiKey, added, now>>

\* secretsClient.send settles: the rest of getTmdbApiKey, then the handler
\* sends the query or returns 500.
GetScheduleSecretResponse(i) ==
    /\ inv[i].kind = "get"
    /\ inv[i].pc = "awaitSecret"
    /\ \E response \in SecretResponses :
         LET apiKey == getTmdbApiKey(response)
         IN  IF apiKey = ""
             THEN /\ inv' = [inv EXCEPT ![i] = Fail(@, SecretFault(response),
                        GetScheduleErrorResponse(SecretFailedMessage))]
                  /\ UNCHANGED cachedTmdbApiKey
             ELSE /\ cachedTmdbApiKey' = apiKey
                  /\ inv' = [inv EXCEPT ![i] =
                        [SendQuery(@) EXCEPT !.tmdbApiKey = apiKey]]
    /\ UNCHANGED <<table, index, tmdbTitle, secretCalls, added, now>>

\* dynamoClient.send(QueryCommand) settles: the rest of getScheduledMovies,
\* then enrichMoviesWithTmdb starts one fetch per movie; with no movie
\* Promise.all resolves at once and the handler returns 200.
GetScheduleQueryResponse(i) ==
    /\ inv[i].kind = "get"
    /\ inv[i].pc = "awaitQuery"
    /\ \/ inv' = [inv EXCEPT ![i] = Fail(@, "dynamodb",
              GetScheduleErrorResponse("Failed to retrieve movies from database"))]
       \/ \E movies \in QueryScheduled(index) :
            inv' = [inv EXCEPT ![i] =
              IF Len(movies) = 0
              THEN Finish(@, Response(200, "", "", NoItem, <<>>))
              ELSE [@ EXCEPT !.pc = "enriching",
                             !.movies = movies,
                             !.enriched = [k \in 1..Len(movies) |-> NoEnriched],
                             !.pending = 1..Len(movies),
                             !.calls = @ \o [k \in 1..Len(movies) |-> "tmdb"]]]
    /\ UNCHANGED <<table, index, tmdbTitle, cachedTmdbApiKey, secretCalls, added, now>>

\* Promise.race in place of Promise.all: the response is assembled when the
\* first fetch settles
GetScheduleTmdbResponse_FirstSettledWins(i, k) ==
    /\ inv[i].kind = "get"
    /\ inv[i].pc = "enriching"
    /\ k \in inv[i].pending
    /\ \E response \in TmdbResponses :
         LET enriched == [inv[i].enriched EXCEPT
                             ![k] = enrichMovie(inv[i].movies[k], response)]
             v == [inv[i] EXCEPT
                      !.enriched = enriched,
                      !.pending = @ \ {k},
                      !.faults = IF response.kind = "ok" THEN @
                                 ELSE @ \cup {TmdbFault(response)},
                      !.settled = Append(@,
                          [k |-> k, ok |-> response.kind = "ok",
                           title |-> response.title])]
         IN  inv' = [inv EXCEPT ![i] =
               Finish(v, Response(200, "", "", NoItem, enriched))]
    /\ UNCHANGED <<table, index, tmdbTitle, cachedTmdbApiKey, secretCalls, added, now>>

\* a callback that fetches the movie a second time when the first fetch of
\* the list fails
GetScheduleTmdbResponse_RetryOnce(i, k) ==
    /\ inv[i].kind = "get"
    /\ inv[i].pc = "enriching"
    /\ k \in inv[i].pending
    /\ \E response \in TmdbResponses :
         LET enriched == [inv[i].enriched EXCEPT
                             ![k] = enrichMovie(inv[i].movies[k], response)]
             v == [inv[i] EXCEPT
                      !.enriched = enriched,
                      !.pending = @ \ {k},
                      !.faults = IF response.kind = "ok" THEN @
                                 ELSE @ \cup {TmdbFault(response)},
                      !.settled = Append(@,
                          [k |-> k, ok |-> response.kind = "ok",
                           title |-> response.title])]
         IN  inv' = [inv EXCEPT ![i] =
               IF response.kind # "ok" /\ inv[i].faults = {}
               THEN [@ EXCEPT !.calls = Append(@, "tmdb"),
                              !.faults = @ \cup {TmdbFault(response)}]
               ELSE IF v.pending = {}
               THEN Finish(v, Response(200, "", "", NoItem, enriched))
               ELSE v]
    /\ UNCHANGED <<table, index, tmdbTitle, cachedTmdbApiKey, secretCalls, added, now>>

\* the elements are collected in the order in which the fetches settle
GetScheduleTmdbResponse_InCompletionOrder(i, k) ==
    /\ inv[i].kind = "get"
    /\ inv[i].pc = "enriching"
    /\ k \in inv[i].pending
    /\ \E response \in TmdbResponses :
         LET at == Len(inv[i].settled) + 1
             enriched == [inv[i].enriched EXCEPT
                             ![at] = enrichMovie(inv[i].movies[k], response)]
             v == [inv[i] EXCEPT
                      !.enriched = enriched,
                      !.pending = @ \ {k},
                      !.faults = IF response.kind = "ok" THEN @
                                 ELSE @ \cup {TmdbFault(response)},
                      !.settled = Append(@,
                          [k |-> k, ok |-> response.kind = "ok",
                           title |-> response.title])]
         IN  inv' = [inv EXCEPT ![i] =
               IF v.pending = {}
               THEN Finish(v, Response(200, "", "", NoItem, enriched))
               ELSE v]
    /\ UNCHANGED <<table, index, tmdbTitle, cachedTmdbApiKey, secretCalls, added, now>>

\* The fetch of the movie at position k settles and its callback produces
\* the element of that position; when it was the last one pending,
\* Promise.all resolves and the handler returns 200.
GetScheduleTmdbResponse(i, k) ==
    /\ inv[i].kind = "get"
    /\ inv[i].pc = "enriching"
    /\ k \in inv[i].pending
    /\ \E response \in TmdbResponses :
         LET enriched == [inv[i].enriched EXCEPT
                             ![k] = enrichMovie(inv[i].movies[k], response)]
             v == [inv[i] EXCEPT
                      !.enriched = enriched,
                      !.pending = @ \ {k},
                      !.faults = IF response.kind = "ok" THEN @
                                 ELSE @ \cup {TmdbFault(response)},
                      !.settled = Append(@,
                          [k |-> k, ok |-> response.kind = "ok",
                           title |-> response.title])]
         IN  inv' = [inv EXCEPT ![i] =
               IF v.pending = {}
               THEN Finish(v, Response(200, "", "", NoItem, enriched))
               ELSE v]
    /\ UNCHANGED <<table, index, tmdbTitle, cachedTmdbApiKey, secretCalls, added, now>>

----------------------------------------------------------------------------
(* The environment *)

\* DynamoDB brings discussion-date-index up to date with one stored item
\* (a global secondary index is updated asynchronously).
IndexUpdate ==
    /\ \E m \in table \ index : index' = index \cup {m}
    /\ UNCHANGED <<table, tmdbTitle, cachedTmdbApiKey, inv, secretCalls, added, now>>

\* Time passes.
Tick ==
    /\ now < MaxTime
    /\ now' = now + 1
    /\ UNCHANGED <<table, index, tmdbTitle, cachedTmdbApiKey, inv, secretCalls, added>>

\* The record of a movie is edited at TMDb.
TmdbEdit ==
    /\ \E t \in Titles \ {tmdbTitle} : tmdbTitle' = t
    /\ UNCHANGED <<table, index, cachedTmdbApiKey, inv, secretCalls, added, now>>

----------------------------------------------------------------------------
(* Requests *)

Member == "member@example.com"

DateChars(y, m, d) == y \o <<"-">> \o m \o <<"-">> \o d

March1 == DateChars(<<"2", "0", "2", "5">>, <<"0", "3">>, <<"0", "1">>)
March8 == DateChars(<<"2", "0", "2", "5">>, <<"0", "3">>, <<"0", "8">>)

ObjectBody(tmdb_id, discussion_date, status, notes) ==
    Body("object", tmdb_id, discussion_date, status, notes)

\* The requests of concurrent invocations: two requests for movie 1 that
\* differ in every other field.
ConcurrentEvents ==
    {Event(ObjectBody(IdNumber(1), DateString(March8), StatusUndefined,
                      NotesUndefined), NoEmail),
     Event(ObjectBody(IdNumber(1), DateString(March1), StatusString("watched"),
                      NotesString(12)), Member)}

\* The requests of sequential invocations: those, two requests for movie 2
\* (each sharing its date with one for movie 1), a body that is not JSON and
\* a date in another format.
CoreEvents ==
    ConcurrentEvents
    \cup {Event(ObjectBody(IdNumber(2), DateString(March1),
                           StatusString("scheduled"), NotesUndefined), Member),
          Event(ObjectBody(IdNumber(2), DateString(March8), StatusUndefined,
                           NotesString(12)), NoEmail),
          Event(BodyWithoutMembers("malformed"), Member),
          Event(ObjectBody(IdNumber(1),
                    DateString(<<"0", "3", "/", "0", "1", "/", "2", "0", "2", "5">>),
                    StatusUndefined, NotesUndefined), Member)}

\* The field values of the specification with one invocation.
AllIds ==
    {IdUndefined, IdValue("null", 0, FALSE), IdValue("string", 1, FALSE),
     IdNumber(-1), IdNumber(0), IdNumber(1), IdValue("number", 1, TRUE),
     IdNumber(2)}

AllDates ==
    {DateUndefined, DateValue("number", <<>>), DateString(<<>>),
     DateString(<<"0", "3", "/", "0", "1", "/", "2", "0", "2", "5">>),
     DateString(<<"2", "0", "2", "5", "-", "3", "-", "1">>),
     DateString(<<"2", "0", "2", "5", "0", "3", "0", "1">>),
     DateString(March1 \o <<"T", "1", "0", ":", "0", "0">>)}
    \cup {DateString(DateChars(y, m, d)) :
            y \in {<<"2", "0", "2", "4">>, <<"2", "0", "2", "5">>},
            m \in {<<"0", "0">>, <<"0", "2">>, <<"0", "4">>, <<"1", "3">>},
            d \in {<<"0", "0">>, <<"2", "9">>, <<"3", "0">>, <<"3", "1">>,
                   <<"3", "2">>}}

AllStatuses ==
    {StatusUndefined, StatusValue("null", ""), StatusString(""),
     StatusString("scheduled"), StatusString("watched"),
     StatusString("cancelled"), StatusValue("number", "0"),
     StatusValue("number", "1"), StatusValue("boolean", "true")}

AllNotes ==
    {NotesUndefined, NotesString(0), NotesString(1),
     NotesString(NotesMaxLength), NotesString(NotesMaxLength + 1),
     NotesValue("number", 0)}

AllEvents ==
    {Event(ObjectBody(id, date, status, notes), email) :
        id \in AllIds, date \in AllDates, status \in AllStatuses,
        notes \in AllNotes, email \in {Member}}
    \cup {Event(BodyWithoutMembers(kind), Member) :
            kind \in {"absent", "malformed", "null", "primitive"}}

----------------------------------------------------------------------------
(* Specifications *)

\* Concurrent add-movie invocations in one process.
Next ==
    \/ \E i \in Slots : AddMovieStart(i, ConcurrentEvents)
    \/ \E i \in Slots : AddMovieSecretResponse(i)
    \/ \E i \in Slots : AddMovieTmdbResponse(i)
    \/ \E i \in Slots : AddMoviePutResponse(i)
    \/ \E i \in Slots : Return(i)

Spec == Init /\ [][Next]_vars

\* Sequential invocations of both handlers: an invocation starts when no
\* other is in flight, as Lambda runs them in one execution environment.
NextSeq ==
    \/ \E i \in Slots : NoneInFlight /\ AddMovieStart(i, CoreEvents)
    \/ \E i \in Slots : NoneInFlight /\ PostMoviesUnauthorized(i, CoreEvents)
    \/ \E i \in Slots : NoneInFlight /\ GetScheduleStart(i)
    \/ \E i \in Slots : AddMovieSecretResponse(i)
    \/ \E i \in Slots : AddMovieTmdbResponse(i)
    \/ \E i \in Slots : AddMoviePutResponse(i)
    \/ \E i \in Slots : GetScheduleSecretResponse(i)
    \/ \E i \in Slots : GetScheduleQueryResponse(i)
    \/ \E i \in Slots : \E k \in inv[i].pending : GetScheduleTmdbResponse(i, k)
    \/ \E i \in Slots : Return(i)
    \/ IndexUpdate
    \/ TmdbEdit

SpecSeq == Init /\ [][NextSeq]_vars

\* the positions a movie can have in the list a query returns
Positions == 1..Cardinality({event.body.tmdb_id : event \in CoreEvents})

\* The same, every fetch that enrichMoviesWithTmdb started settling in the
\* end (fetch is called without a timeout; TMDb or the network ends it).
SpecLive ==
    /\ SpecSeq
    /\ \A i \in Slots : \A k \in Positions :
         WF_vars(GetScheduleTmdbResponse(i, k))

\* One add-movie invocation in a fresh process, over every request.
\* the requests whose tmdb_id no invocation in a slot has
OtherIdEvents ==
    {event \in CoreEvents :
        \A j \in Slots : inv[j].kind = "add"
                            => inv[j].event.body.tmdb_id # event.body.tmdb_id}

\* Concurrent invocations of add-movie for different movies, one
\* invocation a movie.
NextTwo ==
    \/ \E i \in Slots : AddMovieStart(i, OtherIdEvents)
    \/ \E i \in Slots : AddMovieSecretResponse(i)
    \/ \E i \in Slots : AddMovieTmdbResponse(i)
    \/ \E i \in Slots : AddMoviePutResponse(i)

SpecTwo == Init /\ [][NextTwo]_vars

NextOne ==
    \/ AddMovieStart(1, AllEvents)
    \/ AddMovieSecretResponse(1)
    \/ AddMovieTmdbResponse(1)
    \/ AddMoviePutResponse(1)
    \/ Tick

SpecOne == Init /\ [][NextOne]_vars

----------------------------------------------------------------------------
(* Properties of add-movie: duplicates and writes *)

\* the invocation in slot i is an add-movie invocation that has returned
AddDone(i) == inv[i].kind = "add" /\ inv[i].pc = "done"

\* this step is the one in which the add-movie invocation in slot i returns
AddReturns(i) ==
    /\ inv[i].pc # "done"
    /\ inv'[i].kind = "add"
    /\ inv'[i].pc = "done"

\* the request passes JSON.parse and validateRequest
ValidRequest(body) == ParseAndValidate(body)[1] = ""

\* C1: a valid add-movie request whose Secrets Manager, TMDb and DynamoDB
\* calls all succeed returns 201 when no add of its tmdb_id has returned 201
\* before, and 409 when one has, whatever its other fields are.
C1_FirstAddCreatedLaterAddsConflict ==
    [][\A i \in Slots :
         (/\ AddReturns(i)
          /\ ValidRequest(inv'[i].event.body)
          /\ inv'[i].faults = {})
         => inv'[i].resp.statusCode =
                IF added[inv'[i].event.body.tmdb_id] = 0 THEN 201 ELSE 409]_vars

\* C1 case: an add answered 409 with every call healthy, while the entry
\* stored under its tmdb_id differs from it in date, status, notes and
\* submitter.
C1_Witness ==
    \E i \in Slots : \E m \in table :
        /\ AddDone(i)
        /\ inv[i].faults = {}
        /\ inv[i].resp.statusCode = 409
        /\ m.tmdb_id = inv[i].movieItem.tmdb_id
        /\ m.discussion_date # inv[i].movieItem.discussion_date
        /\ m.status # inv[i].movieItem.status
        /\ m.notes # inv[i].movieItem.notes
        /\ m.added_by # inv[i].movieItem.added_by

\* C2: under every interleaving of add-movie invocations the table holds at
\* most one entry per tmdb_id, at most one add of a tmdb_id has returned 201,
\* and every valid add whose calls all succeeded has returned 201 or 409
\* with exactly one 201 given for its tmdb_id.
C2_ExactlyOneConcurrentAddCreated ==
    /\ \A m1, m2 \in table : m1.tmdb_id = m2.tmdb_id => m1 = m2
    /\ \A id \in TmdbIds : added[id] <= 1
    /\ \A i \in Slots :
         (AddDone(i) /\ ValidRequest(inv[i].event.body) /\ inv[i].faults = {})
         => /\ inv[i].resp.statusCode \in {201, 409}
            /\ added[inv[i].event.body.tmdb_id] = 1

\* C2 case: two adds of one tmdb_id raced.  Both sent their PutItemCommand
\* while the table held no entry of the tmdb_id; one returned 201 and the
\* other 409.
C2_Witness ==
    \E i, j \in Slots :
        /\ i # j
        /\ AddDone(i) /\ AddDone(j)
        /\ inv[i].movieItem.tmdb_id = inv[j].movieItem.tmdb_id
        /\ inv[i].free /\ inv[j].free
        /\ inv[i].resp.statusCode = 201
        /\ inv[j].resp.statusCode = 409

\* C3: a step of an add-movie invocation changes the table only when the
\* invocation returns 201 with it, and then by adding exactly its item, which
\* the table did not hold; an add that returns 201 has stored one item, an
\* add that returns anything else has stored none.
C3_OneWriteOn201NoneOtherwise ==
    [][\A i \in Slots :
         (inv'[i] # inv[i] /\ inv'[i].kind = "add")
         => IF AddReturns(i) /\ inv'[i].resp.statusCode = 201
            THEN /\ inv'[i].movieItem \notin table
                 /\ table' = table \cup {inv'[i].movieItem}
                 /\ inv'[i].writes = 1
            ELSE /\ table' = table
                 /\ AddReturns(i) => inv'[i].writes = 0]_vars

\* C3 case: with an entry stored, an add has returned 500 after its
\* PutItemCommand failed; it has stored nothing and its item is not in the
\* table.
C3_Witness ==
    \E i \in Slots :
        /\ AddDone(i)
        /\ inv[i].resp.statusCode = 500
        /\ "dynamodb" \in inv[i].faults
        /\ inv[i].writes = 0
        /\ table # {}
        /\ inv[i].movieItem \notin table

----------------------------------------------------------------------------
(* Properties of add-movie: validation *)

\* the add-movie invocation in slot i has returned 400 without a call to
\* Secrets Manager, TMDb or DynamoDB and without a write
Rejected(i) ==
    /\ inv[i].resp.statusCode = 400
    /\ inv[i].calls = <<>>
    /\ inv[i].writes = 0

\* the body parsed to an object and the dependencies it called all answered
ParsedAndHealthy(i) ==
    /\ AddDone(i)
    /\ inv[i].event.body.kind = "object"
    /\ inv[i].faults = {}

IsLeapYear(y) == (y % 4 = 0 /\ y % 100 # 0) \/ y % 400 = 0

DaysInMonth(y, m) ==
    CASE m \in {4, 6, 9, 11} -> 30
      [] m = 2 -> IF IsLeapYear(y) THEN 29 ELSE 28
      [] OTHER -> 31

\* chars, of the form YYYY-MM-DD, names a day of the calendar
IsRealCalendarDate(chars) ==
    /\ MonthOf(chars) \in 1..12
    /\ DayOf(chars) \in 1..DaysInMonth(YearOf(chars), MonthOf(chars))

WellFormedRealDate(date) ==
    /\ date.t = "string"
    /\ dateRegex(date.chars)
    /\ IsRealCalendarDate(date.chars)

\* C4: an add-movie request whose discussion_date does not match YYYY-MM-DD
\* or names no day of the calendar returns 400 and stores nothing, and every
\* stored entry's discussion_date is a well-formed date of the calendar.
C4_BadDateRejected ==
    /\ \A i \in Slots :
         (ParsedAndHealthy(i)
              /\ ~WellFormedRealDate(inv[i].event.body.discussion_date))
         => Rejected(i)
    /\ \A m \in table :
         dateRegex(m.discussion_date) /\ IsRealCalendarDate(m.discussion_date)

\* C4 failure: the entry stored for a request dated the 30th of February
C4_StoredFebruary30 ==
    \E i \in Slots : \E m \in table :
        /\ AddDone(i)
        /\ inv[i].resp.statusCode = 201
        /\ inv[i].resp.movie = m
        /\ MonthOf(m.discussion_date) = 2
        /\ DayOf(m.discussion_date) = 30

\* C5: an add-movie request whose body is not JSON, or is the JSON text
\* null, returns 400 "Validation error" with no call to Secrets Manager,
\* TMDb or DynamoDB.
C5_UnparseableBodyIsValidationError ==
    \A i \in Slots :
        (AddDone(i) /\ inv[i].event.body.kind \in {"malformed", "null"})
        => /\ Rejected(i)
           /\ inv[i].resp.error = "Validation error"

\* C5 failure: a body that is not JSON answered 500 "Internal server error"
C5_MalformedBodyIs500 ==
    \E i \in Slots :
        /\ AddDone(i)
        /\ inv[i].event.body.kind = "malformed"
        /\ inv[i].resp.statusCode = 500
        /\ inv[i].resp.error = "Internal server error"
        /\ inv[i].calls = <<>>

\* the number is greater than 0
IdPositive(id) == id.n > 0 \/ (id.n = 0 /\ id.frac)

\* C6: an add-movie request whose tmdb_id is missing, is not a number or is
\* at most 0 returns 400 and stores nothing, and every stored entry's tmdb_id
\* is a positive integer.
C6_BadIdRejected ==
    /\ \A i \in Slots :
         (ParsedAndHealthy(i)
              /\ (inv[i].event.body.tmdb_id.t # "number"
                    \/ ~IdPositive(inv[i].event.body.tmdb_id)))
         => Rejected(i)
    /\ \A m \in table :
         /\ m.tmdb_id.t = "number"
         /\ m.tmdb_id.n >= 1
         /\ ~m.tmdb_id.frac

\* C6 failure: the entry stored for a request whose tmdb_id is 1.5
C6_StoredFractionalId ==
    \E i \in Slots : \E m \in table :
        /\ AddDone(i)
        /\ inv[i].resp.statusCode = 201
        /\ inv[i].resp.movie = m
        /\ m.tmdb_id = IdValue("number", 1, TRUE)

\* C7: an add-movie request that carries a status other than "scheduled" or
\* "watched" ("cancelled", the empty string, a value that is no string)
\* returns 400 and stores nothing, and every stored entry's status is one of
\* the two.
C7_BadStatusRejected ==
    /\ \A i \in Slots :
         (ParsedAndHealthy(i)
              /\ inv[i].event.body.status.t # "undefined"
              /\ inv[i].event.body.status \notin
                     {StatusString("scheduled"), StatusString("watched")})
         => Rejected(i)
    /\ \A m \in table : m.status \in {"scheduled", "watched"}

\* C7 failure: a request whose status is the empty string answered 201, its
\* entry stored as scheduled
C7_EmptyStatusStored ==
    \E i \in Slots : \E m \in table :
        /\ AddDone(i)
        /\ inv[i].event.body.status = StatusString("")
        /\ inv[i].resp.statusCode = 201
        /\ inv[i].resp.movie = m
        /\ m.status = "scheduled"

\* the request is valid once its notes are left out
ValidButForNotes(body) ==
    ValidRequest([body EXCEPT !.notes = NotesUndefined])

\* C8: an add-movie request whose notes are longer than 1000 characters
\* returns 400 and stores nothing; every stored entry's notes, when a string,
\* are at most 1000 characters long; and notes of exactly 1000 characters are
\* accepted: a request valid but for them is stored with 201 when its calls
\* succeed.
C8_LongNotesRejected ==
    /\ \A i \in Slots :
         (AddDone(i)
              /\ inv[i].event.body.kind = "object"
              /\ inv[i].event.body.notes.t = "string"
              /\ inv[i].event.body.notes.length > 1000)
         => Rejected(i)
    /\ \A m \in table : m.notes.t = "string" => m.notes.length <= 1000
    /\ \A i \in Slots :
         (ParsedAndHealthy(i)
              /\ inv[i].event.body.notes = NotesString(1000)
              /\ ValidButForNotes(inv[i].event.body))
         => /\ inv[i].resp.statusCode = 201
            /\ inv[i].movieItem \in table
            /\ inv[i].movieItem.notes = NotesString(1000)

\* C8 case: a request valid but for its notes of 1001 characters answered
\* 400 for the notes, nothing stored
C8_Witness ==
    \E i \in Slots :
        /\ AddDone(i)
        /\ inv[i].event.body.notes = NotesString(1001)
        /\ ValidButForNotes(inv[i].event.body)
        /\ Rejected(i)
        /\ inv[i].resp.message = "notes must be less than 1000 characters"
        /\ table = {}

----------------------------------------------------------------------------
(* Properties of the TMDb lookup and of the cached API key *)

\* C9: whenever TMDb answers 404 to an add-movie invocation, in whatever
\* state of the table and however many adds came before, the invocation
\* returns 404 "Not found" in that step, has sent nothing to DynamoDB, has
\* stored nothing, and the table is unchanged.
C9_CatalogNotFoundIs404WithoutWrite ==
    [][\A i \in Slots :
         (AddReturns(i) /\ "tmdb:404" \in inv'[i].faults)
         => /\ inv'[i].resp.statusCode = 404
            /\ inv'[i].resp.error = "Not found"
            /\ \A k \in DOMAIN inv'[i].calls : inv'[i].calls[k] # "dynamodb"
            /\ inv'[i].writes = 0
            /\ table' = table]_vars

\* C9 case: an add of a tmdb_id returned 404 in a process that has served
\* invocations before it (its API key came from the cache), the table holding
\* entries but none of that tmdb_id.
C9_Witness ==
    \E i \in Slots :
        /\ AddDone(i)
        /\ inv[i].faults = {"tmdb:404"}
        /\ inv[i].resp.statusCode = 404
        /\ inv[i].calls = <<"tmdb">>
        /\ table # {}
        /\ \A m \in table : m.tmdb_id # inv[i].event.body.tmdb_id

\* C10 as stated: over the sequential invocations of one process, Secrets
\* Manager is called at most once in total.
C10_SecretFetchedAtMostOnce == secretCalls <= 1

\* C10: once getTmdbApiKey has succeeded, no later invocation of the
\* process calls Secrets Manager and the cached key never changes; until
\* then every invocation that reaches getTmdbApiKey calls it once.
C10_NoSecretCallAfterSuccess ==
    [][/\ cachedTmdbApiKey # NullKey
          => /\ secretCalls' = secretCalls
             /\ cachedTmdbApiKey' = cachedTmdbApiKey
       /\ \A i \in Slots :
            (inv[i].pc = "idle" /\ inv'[i].pc # "idle"
                 /\ cachedTmdbApiKey = NullKey /\ inv'[i].calls # <<>>)
            => /\ inv'[i].calls = <<"secrets">>
               /\ secretCalls' = secretCalls + 1]_vars

\* C10 case: the first fetch failed, the second filled the cache, and a
\* later invocation has run to its end without a call to Secrets Manager.
C10_Witness ==
    \E i \in Slots :
        /\ secretCalls = 2
        /\ cachedTmdbApiKey # NullKey
        /\ inv[i].pc = "done"
        /\ inv[i].calls # <<>>
        /\ \A k \in DOMAIN inv[i].calls : inv[i].calls[k] # "secrets"

----------------------------------------------------------------------------
(* Properties of get-schedule *)

\* the invocation in slot i is a get-schedule invocation that has returned
GetDone(i) == inv[i].kind = "get" /\ inv[i].pc = "done"

\* element e of the response is the entry of stored item m
SameEntry(e, m) ==
    /\ e.tmdb_id = m.tmdb_id
    /\ e.discussion_date = m.discussion_date
    /\ e.status = m.status
    /\ e.notes = m.notes

\* C11: the movies of every 200 response of get-schedule are the entries the
\* query returned, in the order it returned them, which ascends by
\* discussion_date, in whatever order the fetches of the entries settled and
\* whichever of them failed.
C11_ResponseKeepsQueryOrder ==
    \A i \in Slots :
        (GetDone(i) /\ inv[i].resp.statusCode = 200)
        => /\ Len(inv[i].resp.movies) = Len(inv[i].movies)
           /\ \A k \in 1..Len(inv[i].movies) :
                SameEntry(inv[i].resp.movies[k], inv[i].movies[k])
           /\ \A j, k \in 1..Len(inv[i].resp.movies) :
                j < k => ~StringLess(inv[i].resp.movies[k].discussion_date,
                                     inv[i].resp.movies[j].discussion_date)

\* C11 case: a 200 response of two entries with different dates whose
\* second fetch settled first, one of the two fetches having failed.
C11_Witness ==
    \E i \in Slots :
        /\ GetDone(i)
        /\ inv[i].resp.statusCode = 200
        /\ Len(inv[i].resp.movies) = 2
        /\ StringLess(inv[i].resp.movies[1].discussion_date,
                      inv[i].resp.movies[2].discussion_date)
        /\ inv[i].settled[1].k = 2
        /\ inv[i].settled[1].ok # inv[i].settled[2].ok

\* this step settles one fetch of the get-schedule invocation in slot i
EnrichmentSettles(i) ==
    /\ inv[i].kind = "get"
    /\ inv[i].pc = "enriching"
    /\ Len(inv'[i].settled) = Len(inv[i].settled) + 1

\* the element of stored item m with the given title
ElementOf(m, title) ==
    EnrichedMovie(m.tmdb_id, title, m.discussion_date, m.status, m.notes)

\* C12: when the fetch of one entry settles, the element of that entry
\* becomes the stored entry with its stored title if the fetch failed (with
\* 404 or otherwise) and with the title of the body TMDb answered if it
\* succeeded, and the
\* element of no other entry changes; when the last fetch has settled the
\* response is 200 with exactly these elements, one per entry the query
\* returned, count being their number.
C12_FailedEnrichmentFallsBackAlone ==
    [][\A i \in Slots :
         EnrichmentSettles(i)
         => LET last == inv'[i].settled[Len(inv'[i].settled)]
                movie == inv[i].movies[last.k]
            IN  /\ inv'[i].movies = inv[i].movies
                /\ inv'[i].enriched[last.k] =
                       ElementOf(movie, IF last.ok THEN last.title
                                        ELSE movie.title)
                /\ last.ok => last.title \in {tmdbTitle, NoTitle}
                /\ \A j \in DOMAIN inv[i].enriched :
                     j # last.k => inv'[i].enriched[j] = inv[i].enriched[j]
                /\ inv'[i].pc = "done"
                     => /\ inv'[i].resp.statusCode = 200
                        /\ inv'[i].resp.movies = inv'[i].enriched
                        /\ CountOf(inv'[i].resp) = Len(inv[i].movies)
                /\ inv'[i].pc = "done" <=> inv'[i].pending = {}]_vars

\* C12 case: a 200 response of two entries, one fetch failed and one
\* succeeded; the failed entry shows its stored title, not the one TMDb
\* serves now, and the other shows the title TMDb serves, not its stored one.
C12_Witness ==
    \E i \in Slots : \E j, k \in {1, 2} :
        /\ GetDone(i)
        /\ inv[i].resp.statusCode = 200
        /\ CountOf(inv[i].resp) = 2
        /\ Len(inv[i].settled) = 2
        /\ inv[i].settled[1].k = j /\ ~inv[i].settled[1].ok
        /\ inv[i].settled[2].k = k /\ inv[i].settled[2].ok
        /\ inv[i].resp.movies[j].title = inv[i].movies[j].title
        /\ inv[i].resp.movies[j].title # tmdbTitle
        /\ inv[i].resp.movies[k].title = tmdbTitle
        /\ inv[i].resp.movies[k].title # inv[i].movies[k].title

\* getTmdbApiKey threw in the invocation
CredentialFailed(v) == v.faults \cap {"secrets", "secrets:bare"} # {}

\* the invocation made a call to service
Called(v, service) == \E k \in DOMAIN v.calls : v.calls[k] = service

\* C13: a get-schedule invocation whose getTmdbApiKey fails returns 500
\* having called neither DynamoDB nor TMDb, one whose query fails returns 500
\* having called TMDb for no entry, and neither response carries movies.
C13_GetScheduleFailsWhole ==
    \A i \in Slots :
        GetDone(i)
        => /\ CredentialFailed(inv[i])
                => /\ inv[i].resp.statusCode = 500
                   /\ inv[i].resp.movies = <<>>
                   /\ inv[i].calls = <<"secrets">>
           /\ "dynamodb" \in inv[i].faults
                => /\ inv[i].resp.statusCode = 500
                   /\ inv[i].resp.movies = <<>>
                   /\ ~Called(inv[i], "tmdb")

\* C13 case: the query failed while the index held a scheduled entry, and
\* the invocation returned 500 "Internal server error" without movies.
C13_Witness ==
    \E i \in Slots : \E m \in index :
        /\ m.status = "scheduled"
        /\ GetDone(i)
        /\ "dynamodb" \in inv[i].faults
        /\ inv[i].resp.statusCode = 500
        /\ inv[i].resp.error = "Internal server error"
        /\ inv[i].resp.movies = <<>>

----------------------------------------------------------------------------
(* Properties of the identity of the submitter *)

----------------------------------------------------------------------------
(* Properties of getTmdbApiKey *)

\* the values Secrets Manager may hold for the key: a bare string, or the
\* TMDB_API_KEY member of a JSON object
StoredKeys ==
    {r.value : r \in {q \in SecretResponses :
                        /\ q.kind \in {"text", "primitive", "jsonNull", "object"}
                        /\ q.value # ""}}

\* C15: getTmdbApiKey never fails on a SecretString that is a non-empty bare
\* string, and an invocation that has got its key from Secrets Manager
\* leaves the cache holding a stored value of the key.
C15_BareAndStructuredSecretsAccepted ==
    \A i \in Slots :
        /\ "secrets:bare" \notin inv[i].faults
        /\ (/\ Called(inv[i], "secrets")
            /\ inv[i].pc # "awaitSecret"
            /\ ~CredentialFailed(inv[i]))
           => cachedTmdbApiKey \in StoredKeys

\* C15 failure: add-movie returned 500 for a valid request because the
\* SecretString was the bare string 12345, and nothing was cached.
C15_BareDigitsSecretFails ==
    \E i \in Slots :
        /\ AddDone(i)
        /\ ValidRequest(inv[i].event.body)
        /\ inv[i].faults = {"secrets:bare"}
        /\ inv[i].resp.statusCode = 500
        /\ inv[i].resp.message = SecretFailedMessage
        /\ cachedTmdbApiKey = NullKey

----------------------------------------------------------------------------
(* Properties of the entry add-movie builds *)

\* C16: on a 201 response the returned movie is the stored entry, with
\* tmdb_id, discussion_date and notes of the request, the status of the
\* request or "scheduled" when the request has none, the title TMDb serves,
\* created_at equal to updated_at, and added_by the email claim of the
\* submitter, absent without one.
C16_CreatedEntryBuiltFromRequest ==
    \A i \in Slots :
        (AddDone(i) /\ inv[i].resp.statusCode = 201)
        => LET movie == inv[i].resp.movie
               body == inv[i].event.body
           IN  /\ movie \in table
               /\ movie.tmdb_id = body.tmdb_id
               /\ movie.discussion_date = body.discussion_date.chars
               /\ movie.notes = body.notes
               /\ movie.status = IF body.status = StatusUndefined
                                 THEN "scheduled" ELSE body.status.s
               /\ movie.title = tmdbTitle
               /\ movie.created_at = movie.updated_at
               /\ movie.created_at \in 1..now
               /\ movie.added_by = inv[i].event.email

\* C16 failure: a 201 response whose movie is stored as scheduled for a
\* request that carries the status 0.
C16_StatusNotFromRequest ==
    \E i \in Slots :
        /\ AddDone(i)
        /\ inv[i].resp.statusCode = 201
        /\ inv[i].event.body.status = StatusValue("number", "0")
        /\ inv[i].resp.movie \in table
        /\ inv[i].resp.movie.status = "scheduled"
        /\ inv[i].resp.movie.updated_at = 2

----------------------------------------------------------------------------
(* Properties of add-movie: conflicts, order of calls, failures *)

\* C17: an add-movie invocation returns 409 only as the answer to its
\* PutItemCommand and only when the table holds an entry of its tmdb_id at
\* that moment; when DynamoDB answers the command and such an entry exists
\* it returns 409 and the table is unchanged; it returns 201 only when none
\* exists, and the table then gains its item.
C17_ConflictIffEntryExistsAtWrite ==
    [][\A i \in Slots :
         AddReturns(i)
         => LET exists == SameKey(table, inv'[i].movieItem) # {}
                atPut == inv[i].kind = "add" /\ inv[i].pc = "awaitPut"
                code == inv'[i].resp.statusCode
            IN  /\ code = 409 => atPut /\ exists /\ table' = table
                /\ code = 201 => /\ atPut /\ ~exists
                                 /\ table' = table \cup {inv'[i].movieItem}
                /\ (atPut /\ "dynamodb" \notin inv'[i].faults)
                     => code = IF exists THEN 409 ELSE 201]_vars

\* C17 case: an add returned 409 although the table held no entry of its
\* tmdb_id when it sent its PutItemCommand; the entry stored by then is
\* another request's and is unchanged.
C17_Witness ==
    \E i \in Slots : \E m \in table :
        /\ AddDone(i)
        /\ inv[i].resp.statusCode = 409
        /\ inv[i].free
        /\ m.tmdb_id = inv[i].movieItem.tmdb_id
        /\ m # inv[i].movieItem
        /\ Cardinality(table) = 1

\* the calls an add-movie invocation can have made, in order; getTmdbApiKey
\* calls Secrets Manager only when the cache is empty
AddMovieCallOrders ==
    {<<>>, <<"secrets">>, <<"secrets", "tmdb">>,
     <<"secrets", "tmdb", "dynamodb">>, <<"tmdb">>, <<"tmdb", "dynamodb">>}

CatalogFailed(v) == v.faults \cap {"tmdb", "tmdb:404"} # {}

\* C18: an add-movie invocation calls Secrets Manager, TMDb and DynamoDB in
\* that order; it makes no call when its body fails to parse or validate,
\* calls TMDb only with an API key obtained, and sends the PutItemCommand
\* only after TMDb returned the movie, so that a failed credential or
\* catalog step is the last call it makes.
C18_CallsInOrderAfterValidation ==
    \A i \in Slots :
        inv[i].kind = "add"
        => LET v == inv[i]
           IN  /\ v.calls \in AddMovieCallOrders
               /\ ~ValidRequest(v.event.body) => v.calls = <<>>
               /\ CredentialFailed(v) => ~Called(v, "tmdb")
               /\ Called(v, "tmdb") => cachedTmdbApiKey # NullKey
               /\ CatalogFailed(v) => ~Called(v, "dynamodb")
               /\ Called(v, "dynamodb")
                    => /\ v.movieItem # NoItem
                       /\ v.movieItem.tmdb_id = v.event.body.tmdb_id
                       /\ v.movieItem.title \in Titles \cup {NoTitle}

\* C18 case: an add that went through all three calls and stored its item.
C18_Witness ==
    \E i \in Slots :
        /\ AddDone(i)
        /\ inv[i].calls = <<"secrets", "tmdb", "dynamodb">>
        /\ inv[i].faults = {}
        /\ inv[i].resp.statusCode = 201
        /\ inv[i].movieItem \in table

\* C19: an add-movie invocation that returns after getTmdbApiKey failed,
\* after fetchMovieFromTmdb failed otherwise than with 404, or after the
\* PutItemCommand failed otherwise than on its condition, returns 500; in
\* the first two cases it has sent no PutItemCommand, has stored nothing and
\* the step leaves the table as it was.
C19_UpstreamFailureIs500 ==
    [][\A i \in Slots :
         AddReturns(i)
         => LET v == inv'[i]
            IN  /\ (CredentialFailed(v) \/ "tmdb" \in v.faults
                      \/ "dynamodb" \in v.faults)
                     => v.resp.statusCode = 500
                /\ (CredentialFailed(v) \/ "tmdb" \in v.faults)
                     => /\ ~Called(v, "dynamodb")
                        /\ v.writes = 0
                        /\ v.movieItem = NoItem
                        /\ table' = table]_vars

\* C19 case: with an entry in the table, an add whose TMDb lookup failed
\* otherwise than with 404 returned 500.
C19_Witness ==
    \E i \in Slots :
        /\ AddDone(i)
        /\ "tmdb" \in inv[i].faults
        /\ inv[i].resp.statusCode = 500
        /\ inv[i].resp.error = "Internal server error"
        /\ table # {}

----------------------------------------------------------------------------
(* Properties of the cache of getTmdbApiKey *)

\* the handler in slot i enters getTmdbApiKey in this step
EntersGetTmdbApiKey(i) ==
    /\ inv[i].pc = "idle"
    /\ inv'[i].kind \in {"add", "get"}
    /\ inv'[i].kind = "add" => ValidRequest(inv'[i].event.body)

\* C20: no step empties a cache that holds a key; a handler that enters
\* getTmdbApiKey while the cache holds a key is given that key and sends no
\* GetSecretValue, in that step or later; a GetSecretValue is only ever sent
\* with the cache empty.
C20_CacheNeverClearedAndAlwaysUsed ==
    [][/\ cachedTmdbApiKey # NullKey => cachedTmdbApiKey' # NullKey
       /\ \A i \in Slots :
            /\ (EntersGetTmdbApiKey(i) /\ cachedTmdbApiKey # NullKey)
                 => /\ inv'[i].tmdbApiKey = cachedTmdbApiKey
                    /\ inv'[i].pc # "awaitSecret"
                    /\ secretCalls' = secretCalls
            /\ (Called(inv'[i], "secrets") /\ ~Called(inv[i], "secrets"))
                 => cachedTmdbApiKey = NullKey
            /\ (inv[i].pc \notin {"idle", "done"}
                  /\ ~Called(inv[i], "secrets"))
                 => ~Called(inv'[i], "secrets")]_vars

\* C20 case: while one add was still waiting for Secrets Manager the cache
\* was filled, and an add that started afterwards was given the cached key
\* without a call to Secrets Manager.
C20_Witness ==
    \E i, j \in Slots :
        /\ i # j
        /\ inv[i].kind = "add" /\ inv[i].pc = "awaitSecret"
        /\ inv[j].kind = "add" /\ inv[j].pc = "awaitTmdb"
        /\ inv[j].calls = <<"tmdb">>
        /\ inv[j].tmdbApiKey = cachedTmdbApiKey
        /\ cachedTmdbApiKey # NullKey
        /\ secretCalls = MaxSecretCalls

\* the handler in slot i is given a key by the GetSecretValue it sent
FetchSucceeds(i) ==
    /\ inv[i].pc = "awaitSecret"
    /\ inv'[i].pc # "awaitSecret"
    /\ inv'[i].tmdbApiKey # NullKey

\* the keys getTmdbApiKey can take from a SecretString
FetchableKeys == {getTmdbApiKey(r) : r \in SecretResponses} \ {""}

\* the cache and every handler that holds a key hold k
AgreeOn(k, cache, invs) ==
    /\ cache \in {NullKey, k}
    /\ \A i \in Slots : invs[i].tmdbApiKey \in {NullKey, k}

\* C21: under concurrent getTmdbApiKey calls the cache changes only in a
\* step in which a GetSecretValue yields a key, and to that key; a handler
\* is given a key only by its own GetSecretValue or from the cache; and as
\* long as every GetSecretValue that yields a key yields the same key k,
\* the cache and all handlers hold no other key, and the cache holds k from
\* the first such fetch on.
C21_CacheConsistentUnderConcurrentFetches ==
    [][/\ cachedTmdbApiKey' # cachedTmdbApiKey
            => \E i \in Slots : /\ FetchSucceeds(i)
                                /\ cachedTmdbApiKey' = inv'[i].tmdbApiKey
       /\ \A i \in Slots :
            /\ FetchSucceeds(i)
                 => /\ inv'[i].tmdbApiKey \in FetchableKeys
                    /\ cachedTmdbApiKey' = inv'[i].tmdbApiKey
            /\ (inv'[i].tmdbApiKey # NullKey
                  /\ inv'[i].tmdbApiKey # inv[i].tmdbApiKey)
                 => \/ FetchSucceeds(i)
                    \/ /\ inv[i].pc = "idle"
                       /\ inv'[i].tmdbApiKey = cachedTmdbApiKey
                       /\ ~Called(inv'[i], "secrets")
       /\ \A k \in FetchableKeys :
            (/\ AgreeOn(k, cachedTmdbApiKey, inv)
             /\ \A i \in Slots : FetchSucceeds(i) => inv'[i].tmdbApiKey = k)
            => /\ AgreeOn(k, cachedTmdbApiKey', inv')
               /\ (\E i \in Slots : FetchSucceeds(i))
                    => cachedTmdbApiKey' = k]_vars

\* C21 case: two adds entered getTmdbApiKey with the cache empty, each sent
\* its own GetSecretValue, both were given the same key and the cache holds
\* it.
C21_Witness ==
    \E i, j \in Slots :
        /\ i # j
        /\ inv[i].kind = "add" /\ inv[j].kind = "add"
        /\ Called(inv[i], "secrets") /\ Called(inv[j], "secrets")
        /\ inv[i].tmdbApiKey = "tmdb-key"
        /\ inv[j].tmdbApiKey = "tmdb-key"
        /\ cachedTmdbApiKey = "tmdb-key"

\* C22: a getTmdbApiKey whose GetSecretValue rejects, returns no
\* SecretString, or returns a JSON object without a non-empty TMDB_API_KEY
\* throws (the handler returns 500 having made no other call) and leaves
\* the cache empty; and every handler that enters getTmdbApiKey with the
\* cache empty sends a GetSecretValue of its own.
C22_FailedFetchIsNotCached ==
    [][\A i \in Slots :
         /\ (inv'[i].pc = "done" /\ "secrets" \in inv'[i].faults)
              => /\ cachedTmdbApiKey' = NullKey
                 /\ inv'[i].tmdbApiKey = NullKey
                 /\ inv'[i].calls = <<"secrets">>
                 /\ inv'[i].resp.statusCode = 500
         /\ (EntersGetTmdbApiKey(i) /\ cachedTmdbApiKey = NullKey)
              => /\ inv'[i].pc = "awaitSecret"
                 /\ inv'[i].calls = <<"secrets">>
                 /\ secretCalls' = secretCalls + 1]_vars

\* C22 case: a first fetch failed, the next handler fetched again, and that
\* fetch failed on a SecretString without a usable TMDB_API_KEY as well,
\* leaving the cache empty.
C22_Witness ==
    \E i \in Slots :
        /\ inv[i].pc = "done"
        /\ inv[i].faults = {"secrets"}
        /\ inv[i].calls = <<"secrets">>
        /\ secretCalls = MaxSecretCalls
        /\ cachedTmdbApiKey = NullKey

----------------------------------------------------------------------------
(* Properties of fetchMovieFromTmdb *)

\* the body TMDb answered is a movie
WellFormedPayload(response) == response.title \in Titles

\* C23: in every add-movie invocation whose fetchMovieFromTmdb has settled,
\* exactly one of three happened: TMDb answered 404 and MovieNotFoundError
\* was thrown (the handler returns 404); TMDb answered a 2xx response whose
\* body is a movie and that record was returned (the item put carries its
\* title); anything else and the generic Error was thrown (the handler
\* returns 500).
C23_FetchClassifiesOutcomes ==
    \A i \in Slots :
        (inv[i].kind = "add" /\ Called(inv[i], "tmdb")
           /\ inv[i].pc # "awaitTmdb")
        => LET v == inv[i]
               notFound == "tmdb:404" \in v.faults
               unavailable == "tmdb" \in v.faults
               returned == Called(v, "dynamodb")
           IN  /\ ~(notFound /\ unavailable)
               /\ returned <=> ~(notFound \/ unavailable)
               /\ notFound => v.pc = "done" /\ v.resp.statusCode = 404
               /\ unavailable => v.pc = "done" /\ v.resp.statusCode = 500
               /\ returned => v.movieItem.title \in Titles

\* C23 case: TMDb answered 200 with a JSON body that is not a movie;
\* fetchMovieFromTmdb returned it as the movie and the add stored an item
\* without a title and returned 201.
C23_StoredItemWithoutTitle ==
    \E i \in Slots :
        /\ AddDone(i)
        /\ inv[i].resp.statusCode = 201
        /\ inv[i].faults = {}
        /\ inv[i].movieItem.title = NoTitle
        /\ inv[i].movieItem \in table

\* the number of calls the invocation made to service
CountCalls(v, service) ==
    Cardinality({k \in DOMAIN v.calls : v.calls[k] = service})

\* C24: an add-movie invocation makes at most one request to TMDb, and none
\* after that request has settled; a get-schedule invocation makes no
\* request before its query has returned and then exactly one per movie the
\* query returned, each settling once, whatever the outcomes.
C24_OneCatalogRequestPerFetch ==
    \A i \in Slots :
        LET v == inv[i]
        IN  /\ v.kind = "add"
                 => /\ CountCalls(v, "tmdb") <= 1
                    /\ v.pc = "awaitTmdb" => CountCalls(v, "tmdb") = 1
                    /\ CatalogFailed(v) => CountCalls(v, "tmdb") = 1
            /\ v.kind = "get"
                 => /\ CountCalls(v, "tmdb") = Len(v.movies)
                    /\ v.pc \in {"awaitSecret", "awaitQuery"}
                         => CountCalls(v, "tmdb") = 0
                    /\ Len(v.settled) + Cardinality(v.pending)
                         = Len(v.movies)
                    /\ \A a, b \in DOMAIN v.settled :
                         v.settled[a].k = v.settled[b].k => a = b

\* C24 case: a get-schedule of two movies of which the fetch of one failed
\* returned 200 having made two requests to TMDb.
C24_Witness ==
    \E i \in Slots :
        /\ GetDone(i)
        /\ inv[i].resp.statusCode = 200
        /\ Len(inv[i].movies) = 2
        /\ \E a \in DOMAIN inv[i].settled : ~inv[i].settled[a].ok
        /\ CountCalls(inv[i], "tmdb") = 2

----------------------------------------------------------------------------
(* Properties of the listing *)

\* C25: every element of a 200 response of get-schedule has status
\* "scheduled" and is an item of the table with that status; no item stored
\* with status "watched" is an element of any response.
C25_OnlyScheduledEntriesListed ==
    \A i \in Slots :
        (GetDone(i) /\ inv[i].resp.statusCode = 200)
        => /\ \A k \in DOMAIN inv[i].resp.movies :
                LET e == inv[i].resp.movies[k]
                IN  /\ e.status = "scheduled"
                    /\ \E m \in table :
                         SameEntry(e, m) /\ m.status = "scheduled"
           /\ \A m \in table :
                m.status = "watched"
                => \A k \in DOMAIN inv[i].resp.movies :
                     inv[i].resp.movies[k].tmdb_id # m.tmdb_id

\* C25 case: the table and the index hold a watched movie and a scheduled
\* one, and the 200 response lists the scheduled one alone.
C25_Witness ==
    \E i \in Slots : \E m \in index :
        /\ GetDone(i)
        /\ inv[i].resp.statusCode = 200
        /\ m.status = "watched"
        /\ m \in table
        /\ Len(inv[i].resp.movies) = 1
        /\ inv[i].resp.movies[1].tmdb_id # m.tmdb_id
        /\ Cardinality(index) = 2

\* C26: in a 200 response of get-schedule the element of every movie whose
\* fetch returned carries the title of the body TMDb answered to that
\* fetch, whatever title is stored, and the tmdb_id, discussion_date, status
\* and notes of the stored item.
C26_FreshCatalogFieldsOnSuccess ==
    \A i \in Slots :
        (GetDone(i) /\ inv[i].resp.statusCode = 200)
        => \A a \in DOMAIN inv[i].settled :
             LET s == inv[i].settled[a]
                 e == inv[i].resp.movies[s.k]
                 m == inv[i].movies[s.k]
             IN  s.ok => /\ e.title = s.title
                         /\ e.tmdb_id = m.tmdb_id
                         /\ e.discussion_date = m.discussion_date
                         /\ e.status = m.status
                         /\ e.notes = m.notes
                         /\ m \in table

\* C26 case: the title TMDb serves has changed since the movie was stored;
\* the fetch returned and the element carries the new title with the stored
\* date and notes.
C26_Witness ==
    \E i \in Slots :
        /\ GetDone(i)
        /\ inv[i].resp.statusCode = 200
        /\ Len(inv[i].resp.movies) = 1
        /\ inv[i].settled[1].ok
        /\ inv[i].movies[1].title \in Titles
        /\ inv[i].resp.movies[1].title \in Titles \ {inv[i].movies[1].title}
        /\ inv[i].resp.movies[1].notes = inv[i].movies[1].notes
        /\ inv[i].resp.movies[1].notes # NotesUndefined

----------------------------------------------------------------------------
(* Properties of the table *)

\* C27: every step leaves every stored item in the table as it is; the
\* table changes only by gaining one item under a key that was free, in the
\* step in which an add-movie invocation returns 201 with that item; no
\* step of a get-schedule invocation and no add returning 409 changes it.
C27_StoredItemsNeverChange ==
    [][/\ table \subseteq table'
       /\ Cardinality(table' \ table) <= 1
       /\ \A m \in table' \ table :
            /\ SameKey(table, m) = {}
            /\ \E i \in Slots : /\ AddReturns(i)
                                /\ inv'[i].resp.statusCode = 201
                                /\ inv'[i].movieItem = m
       /\ \A i \in Slots :
            /\ (inv'[i].kind = "get" /\ inv'[i] # inv[i]) => table' = table
            /\ (AddReturns(i) /\ inv'[i].resp.statusCode # 201)
                 => table' = table]_vars

\* C27 case: with two movies stored, an add for one of them with other
\* notes returned 409 and the stored item has the notes it was stored with.
C27_Witness ==
    \E i \in Slots : \E m \in table :
        /\ AddDone(i)
        /\ inv[i].resp.statusCode = 409
        /\ m.tmdb_id = inv[i].movieItem.tmdb_id
        /\ m.notes # inv[i].movieItem.notes
        /\ Cardinality(table) = 2
        /\ index = table

----------------------------------------------------------------------------
(* Properties of Promise.all in enrichMoviesWithTmdb *)

\* the handler in slot i is in enrichMoviesWithTmdb, awaiting Promise.all
Enriching(i) == inv[i].kind = "get" /\ inv[i].pc = "enriching"

\* while fetches are pending the handler has returned nothing, and the
\* response it returns has the element of every movie of the query
NoPartialResponse ==
    \A i \in Slots :
        /\ Enriching(i) => /\ inv[i].pending # {}
                           /\ inv[i].resp = NoResponse
        /\ (GetDone(i) /\ inv[i].resp.statusCode = 200)
             => /\ inv[i].pending = {}
                /\ Len(inv[i].settled) = Len(inv[i].movies)
                /\ Len(inv[i].resp.movies) = Len(inv[i].movies)
                /\ \A k \in DOMAIN inv[i].resp.movies :
                     inv[i].resp.movies[k] # NoEnriched

\* C28: a get-schedule invocation returns nothing while a fetch of
\* enrichMoviesWithTmdb is pending and its 200 response has the element of
\* every movie the query returned; and, every fetch settling in the end, an
\* invocation that awaits the fetches returns its 200 response in the end.
C28_ResponseAfterAllEnrichments ==
    /\ []NoPartialResponse
    /\ \A i \in Slots :
         Enriching(i) ~> (GetDone(i) /\ inv[i].resp.statusCode = 200)

\* C28 case: of the two fetches of an invocation one has settled and one is
\* pending, and the handler has not returned.
C28_Witness ==
    \E i \in Slots :
        /\ Enriching(i)
        /\ Len(inv[i].movies) = 2
        /\ Len(inv[i].settled) = 1
        /\ Cardinality(inv[i].pending) = 1
        /\ inv[i].enriched[inv[i].settled[1].k] # NoEnriched
        /\ inv[i].resp = NoResponse

----------------------------------------------------------------------------
(* Properties of concurrent adds of different movies *)

\* what the invocation returns when it runs alone on an empty table and
\* Secrets Manager, TMDb and DynamoDB answer it as they answered v
StatusAlone(v) ==
    LET thrown == ParseAndValidate(v.event.body)
    IN  IF thrown[1] # ""
        THEN AddMovieErrorResponse(thrown[1], thrown[2]).statusCode
        ELSE IF CredentialFailed(v) THEN 500
        ELSE IF "tmdb:404" \in v.faults THEN 404
        ELSE IF "tmdb" \in v.faults THEN 500
        ELSE IF "dynamodb" \in v.faults THEN 500
        ELSE 201

\* C29: with every invocation adding another movie, each returns what it
\* returns alone (never 409); on 201 the item stored under its tmdb_id is
\* the one built from its own request, on any other status nothing is
\* stored under its tmdb_id; and two requests that are valid, with no call
\* failing, both return 201 with both items in the table.
C29_AddsOfDifferentMoviesIndependent ==
    /\ \A i \in Slots :
         AddDone(i)
         => LET v == inv[i]
                own == {m \in table : m.tmdb_id = v.event.body.tmdb_id}
            IN  /\ v.resp.statusCode = StatusAlone(v)
                /\ v.resp.statusCode = 201
                     => /\ own = {v.movieItem}
                        /\ v.resp.movie = v.movieItem
                        /\ v.movieItem =
                             createMovieItem(v.event.body,
                                 [error |-> "", title |-> v.movieItem.title],
                                 v.event.email)
                /\ v.resp.statusCode # 201 => own = {}
    /\ \A i, j \in Slots :
         (/\ i # j /\ AddDone(i) /\ AddDone(j)
          /\ ValidRequest(inv[i].event.body) /\ inv[i].faults = {}
          /\ ValidRequest(inv[j].event.body) /\ inv[j].faults = {})
         => /\ inv[i].resp.statusCode = 201
            /\ inv[j].resp.statusCode = 201
            /\ {inv[i].movieItem, inv[j].movieItem} \subseteq table
            /\ inv[i].movieItem # inv[j].movieItem

\* C29 case: two adds of different movies that both found the cache empty,
\* so that they overlapped, both returned 201 and both items are stored.
C29_Witness ==
    \E i, j \in Slots :
        /\ AddDone(i) /\ AddDone(j)
        /\ inv[i].event.body.tmdb_id # inv[j].event.body.tmdb_id
        /\ inv[i].calls = <<"secrets", "tmdb", "dynamodb">>
        /\ inv[j].calls = <<"secrets", "tmdb", "dynamodb">>
        /\ inv[i].resp.statusCode = 201
        /\ inv[j].resp.statusCode = 201
        /\ table = {inv[i].movieItem, inv[j].movieItem}

----------------------------------------------------------------------------
(* Properties of an add followed by a listing *)

\* the positions of the list at which the movie of item m stands
PositionsOf(list, m) == {k \in DOMAIN list : list[k].tmdb_id = m.tmdb_id}

\* the list has the movie of item m once, with the date of m
ListedOnce(list, m) ==
    /\ Cardinality(PositionsOf(list, m)) = 1
    /\ \A k \in PositionsOf(list, m) :
         list[k].discussion_date = m.discussion_date

====
